---------------------------- MODULE Spec2Model ----------------------------
(***************************************************************************)
(* Model of src/app.py: the AccessControllerServer protocol engine.        *)
(*                                                                         *)
(*  - the frame codec (calculate_checksum, build_command_frame,            *)
(*    parse_frame) as operators computed the way the code computes them,   *)
(*    exercised by the specification CodecSpec;                            *)
(*  - the server (accept loop, one handler thread per connection, the      *)
(*    shared controller_conn reference, the command queue, stop_server,    *)
(*    trigger_open_door) as the state machine Spec; FairSpec adds fair     *)
(*    scheduling of the threads, and FlushSpec starts from a Streaming     *)
(*    session and submits commands only while it waits in recv.            *)
(*                                                                         *)
(* Python indexes from 0, TLA+ sequences from 1: At and Slice translate.   *)
(***************************************************************************)
EXTENDS Integers, Sequences, FiniteSets, TLC

(***************************************************************************)
(* Bounds of the model.                                                    *)
(***************************************************************************)
\* longest payload of the exhaustively enumerated encoder inputs
MaxPayloadLen == 2
\* most payload bytes removed from the middle of a frame by one truncation
MaxCut == 2
\* connections the controller side opens during a run
MaxConns == 2
\* reads that return bytes, over all connections
MaxRecv == 2
\* calls of trigger_open_door
MaxEnqueue == 3

(***************************************************************************)
(* Protocol constants (AccessControllerServer.__init__).                   *)
(***************************************************************************)
STX == 2
ETX == 3
RAND == 160

(***************************************************************************)
(* Python sequence primitives.                                             *)
(***************************************************************************)
\* data[i] for a valid index i (0-based)
At(data, i) == data[i + 1]

Min(a, b) == IF a < b THEN a ELSE b

\* data[a:b] for 0 <= a, 0 <= b: Python clamps the slice to the sequence
Slice(data, a, b) == SubSeq(data, a + 1, Min(b, Len(data)))

\* a ^ b on non-negative integers, bit by bit
RECURSIVE XorBits(_, _)
XorBits(a, b) ==
    IF a = 0 THEN b
    ELSE IF b = 0 THEN a
    ELSE (((a % 2) + (b % 2)) % 2) + (2 * XorBits(a \div 2, b \div 2))

\* a ^ b; each operand is evaluated once, before the bits are combined
BitXor(a, b) == CHOOSE r \in {XorBits(x, y) : x \in {a}, y \in {b}} : TRUE

\* the loop "for byte in data[...]: checksum ^= byte" over the 0-based
\* positions lo..hi, left to right, starting from checksum.  The range is
\* halved, and the left half is evaluated to its value (left) before the
\* right half starts from it, so that long inputs evaluate in shallow depth.
RECURSIVE ChecksumLoop(_, _, _, _)
ChecksumLoop(checksum, data, lo, hi) ==
    IF lo > hi THEN checksum
    ELSE IF lo = hi THEN BitXor(checksum, At(data, lo))
    ELSE CHOOSE r \in UNION
             {{ChecksumLoop(left, data, mid + 1, hi) :
                  left \in {ChecksumLoop(checksum, data, lo, mid)}} :
                 mid \in {(lo + hi) \div 2}} : TRUE

\* mutant: the checksum is kept to 7 bits
ChecksumLow7(data) ==
    IF data = <<>> THEN 0
    ELSE ChecksumLoop(At(data, 0), data, 1, Len(data) - 1) % 128

calculate_checksum(data) ==
    IF data = <<>> THEN 0
    ELSE ChecksumLoop(At(data, 0), data, 1, Len(data) - 1)

\* mutant: the length bytes are written high byte first
BuildBigEndian(command, data, door) ==
    LET data_length == Len(data)
        length_l == data_length % 256
        length_h == (data_length \div 256) % 256
        frame_data == <<STX, RAND, command, 255, door, length_h, length_l>> \o data
        cs == calculate_checksum(Slice(frame_data, 1, Len(frame_data)))
    IN  frame_data \o <<cs, ETX>>

\* mutant: the trailing ETX is appended before the checksum
BuildTrailerSwapped(command, data, door) ==
    LET data_length == Len(data)
        length_l == data_length % 256
        length_h == (data_length \div 256) % 256
        frame_data == <<STX, RAND, command, 255, door, length_l, length_h>> \o data
        cs == calculate_checksum(Slice(frame_data, 1, Len(frame_data)))
    IN  frame_data \o <<ETX, cs>>

\* mutant: the checksum also covers STX
BuildChecksumFromStx(command, data, door) ==
    LET data_length == Len(data)
        length_l == data_length % 256
        length_h == (data_length \div 256) % 256
        frame_data == <<STX, RAND, command, 255, door, length_l, length_h>> \o data
        cs == calculate_checksum(frame_data)
    IN  frame_data \o <<cs, ETX>>

\* build_command_frame(command, data, door); data = <<>> stands for None too
build_command_frame(command, data, door) ==
    LET data_length == Len(data)
        length_l == data_length % 256
        length_h == (data_length \div 256) % 256
        frame_data == <<STX, RAND, command, 255, door, length_l, length_h>> \o data
        cs == calculate_checksum(Slice(frame_data, 1, Len(frame_data)))
    IN  frame_data \o <<cs, ETX>>

(***************************************************************************)
(* parse_frame.  The result is the dict the code returns, or a rejection   *)
(* (the code returns None) carrying the warning the code logs.             *)
(***************************************************************************)
Reject(why) ==
    [ok |-> FALSE, err |-> why, rand |-> 0, command |-> 0, address |-> 0,
     door |-> 0, length |-> 0, data |-> <<>>, cs |-> 0]

\* mutant: the frame length check is missing; a read past the end of the
\* bytes (IndexError) is reported as its own rejection
ParseNoLengthCheck(data) ==
    IF Len(data) < 10 THEN Reject("too_short")
    ELSE IF At(data, 0) # STX \/ At(data, Len(data) - 1) # ETX
    THEN Reject("stx_etx")
    ELSE LET data_length == At(data, 5) + (At(data, 6) * 256)
             data_end == 7 + data_length
         IN  IF data_end >= Len(data) THEN Reject("index_error")
             ELSE IF At(data, data_end) # calculate_checksum(Slice(data, 1, data_end))
             THEN Reject("checksum")
             ELSE [ok |-> TRUE, err |-> "none", rand |-> At(data, 1),
                   command |-> At(data, 2), address |-> At(data, 3),
                   door |-> At(data, 4), length |-> data_length,
                   data |-> Slice(data, 7, data_end), cs |-> At(data, data_end)]

\* mutant: the received checksum byte is not compared
ParseNoChecksum(data) ==
    IF Len(data) < 10 THEN Reject("too_short")
    ELSE IF At(data, 0) # STX \/ At(data, Len(data) - 1) # ETX
    THEN Reject("stx_etx")
    ELSE LET data_length == At(data, 5) + (At(data, 6) * 256)
             data_end == 7 + data_length
         IN  IF Len(data) # 10 + data_length THEN Reject("length")
             ELSE [ok |-> TRUE, err |-> "none", rand |-> At(data, 1),
                   command |-> At(data, 2), address |-> At(data, 3),
                   door |-> At(data, 4), length |-> data_length,
                   data |-> Slice(data, 7, data_end), cs |-> At(data, data_end)]

parse_frame(data) ==
    IF Len(data) < 10 THEN Reject("too_short")
    ELSE IF At(data, 0) # STX \/ At(data, Len(data) - 1) # ETX
    THEN Reject("stx_etx")
    ELSE LET rand == At(data, 1)
             command == At(data, 2)
             address == At(data, 3)
             door == At(data, 4)
             length_l == At(data, 5)
             length_h == At(data, 6)
             data_length == length_l + (length_h * 256)
             expected_length == 10 + data_length
             data_start == 7
             data_end == data_start + data_length
         IN  IF Len(data) # expected_length THEN Reject("length")
             ELSE LET frame_data == Slice(data, data_start, data_end)
                      received_cs == At(data, data_end)
                      checksum_data == Slice(data, 1, data_end)
                      expected_cs == calculate_checksum(checksum_data)
                  IN  IF received_cs # expected_cs THEN Reject("checksum")
                      ELSE [ok |-> TRUE, err |-> "none", rand |-> rand,
                            command |-> command, address |-> address,
                            door |-> door, length |-> data_length,
                            data |-> frame_data, cs |-> received_cs]

(***************************************************************************)
(* State.                                                                  *)
(***************************************************************************)
VARIABLES
    \* codec exercise: the arguments given to build_command_frame
    encCommand, encDoor, encPayload,
    \* the bytes under test and how they were obtained
    buf, bufKind,
    \* 0-based index of the byte a bit was flipped in (0: none)
    flipPos,
    \* the result of parse_frame(buf), or Reject("unparsed") before the call
    decoded,
    \* self.server_socket: "none", "listening" or "closed"
    server_socket,
    \* self.running
    running,
    \* self.controller_conn: a connection, or 0 for None
    controller_conn,
    \* self.command_queue: records [cmd, id], id numbering the put calls
    command_queue,
    \* per connection, the socket: "unborn", "open", "reset" (the peer has
    \* reset the connection: a send or recv on it raises) or "closed"
    \* (close() was called on it)
    conn,
    \* per connection, where its handle_controller_connection thread is
    pc,
    \* per connection, the local variable data of the current iteration
    recv_data,
    \* per connection, the frames written to it by send(), in order
    wire,
    \* where start_server is: "init", "accept" or "stopped"
    serverPc,
    \* history: the number of recv calls that returned bytes
    recvCount,
    \* history: the number of put calls on the queue
    enqueued,
    \* history: the ids taken from the queue, in the order taken
    drained,
    \* history: the number of "Failed to parse frame" warnings logged
    rejected

codecVars == <<encCommand, encDoor, encPayload, buf, bufKind, flipPos, decoded>>

serverVars == <<server_socket, running, controller_conn, command_queue, conn,
                pc, recv_data, wire, serverPc, recvCount, enqueued, drained,
                rejected>>

vars == <<codecVars, serverVars>>

Conns == 1..MaxConns

\* the server as __init__ leaves it, before start_server
ServerIdle ==
    /\ server_socket = "none"
    /\ running = FALSE
    /\ controller_conn = 0
    /\ command_queue = <<>>
    /\ conn = [c \in Conns |-> "unborn"]
    /\ pc = [c \in Conns |-> "unborn"]
    /\ recv_data = [c \in Conns |-> <<>>]
    /\ wire = [c \in Conns |-> <<>>]
    /\ serverPc = "init"
    /\ recvCount = 0
    /\ enqueued = 0
    /\ drained = <<>>
    /\ rejected = 0

(***************************************************************************)
(* Inputs of the codec exercise.                                           *)
(***************************************************************************)
CommandBytes == {3, 44, 86}
DoorBytes == {0, 2}
\* payload bytes include the values of STX and ETX
PayloadBytes == {2, 3, 255}

ShortPayloads == UNION {[1..n -> PayloadBytes] : n \in 0..MaxPayloadLen}

\* a payload of n bytes with varying content
Ramp(n) == [i \in 1..n |-> (i * 7) % 256]

\* an input whose payload length needs both length bytes
LongInputs == {<<44, 2, Ramp(300)>>}

EncInputs ==
    {<<c, d, p>> : c \in CommandBytes, d \in DoorBytes, p \in ShortPayloads}
        \cup LongInputs

\* the XOR of all bytes, zero for no bytes
RECURSIVE XorFromZero(_)
XorFromZero(bytes) ==
    IF bytes = <<>> THEN 0
    ELSE IF Len(bytes) = 1 THEN BitXor(0, bytes[1])
    ELSE LET h == Len(bytes) \div 2
         IN  BitXor(XorFromZero(SubSeq(bytes, 1, h)),
                    XorFromZero(SubSeq(bytes, h + 1, Len(bytes))))

\* Bytes a peer can send that satisfy every rule of parse_frame: the seven
\* header bytes, the payload, the XOR of Rand..payload at offset 7 + N, one
\* more byte, and ETX as the last of 10 + N bytes.
WireFrame(rand, command, address, door, payload, pad) ==
    LET n == Len(payload)
        covered == <<rand, command, address, door, n % 256, n \div 256>>
                       \o payload
    IN  <<STX>> \o covered \o <<XorFromZero(covered), pad, ETX>>

\* <<rand, address, pad>> of the received frames
WireVariants == {<<160, 255, 0>>, <<90, 1, 3>>}

Pow2(b) == CASE b = 0 -> 1 [] b = 1 -> 2 [] b = 2 -> 4 [] b = 3 -> 8
             [] b = 4 -> 16 [] b = 5 -> 32 [] b = 6 -> 64 [] b = 7 -> 128

\* the declared payload length of a byte sequence holding a full header
Declared(data) == At(data, 5) + (At(data, 6) * 256)

Unparsed == Reject("unparsed")

CodecInit ==
    /\ \E in \in EncInputs :
          /\ encCommand = in[1]
          /\ encDoor = in[2]
          /\ encPayload = in[3]
    /\ buf = <<>>
    /\ bufKind = "none"
    /\ flipPos = 0
    /\ decoded = Unparsed
    /\ ServerIdle

\* frame = build_command_frame(command, payload, door)
Encode ==
    /\ bufKind = "none"
    /\ buf' = build_command_frame(encCommand, encPayload, encDoor)
    /\ bufKind' = "built"
    /\ UNCHANGED <<serverVars, encCommand, encDoor, encPayload, flipPos, decoded>>

\* data = conn.recv(1024): bytes of the form parse_frame accepts arrive,
\* carrying the same command, door and payload
Receive ==
    /\ bufKind = "none"
    /\ \E v \in WireVariants :
          buf' = WireFrame(v[1], encCommand, v[2], encDoor, encPayload, v[3])
    /\ bufKind' = "wire"
    /\ UNCHANGED <<serverVars, encCommand, encDoor, encPayload, flipPos, decoded>>

\* one bit of one byte in the Rand..Payload range of an accepted frame flips
FlipBit ==
    /\ bufKind \in {"built", "wire"}
    /\ decoded = Unparsed
    /\ parse_frame(buf).ok
    /\ \E i \in 1..(6 + Declared(buf)), b \in 0..7 :
          /\ buf' = [buf EXCEPT ![i + 1] = BitXor(@, Pow2(b))]
          /\ flipPos' = i
    /\ bufKind' = "flipped"
    /\ UNCHANGED <<serverVars, encCommand, encDoor, encPayload, decoded>>

\* the bytes are cut short: the tail is lost, or payload bytes are lost
\* while the trailer still arrives
Truncate ==
    /\ bufKind \in {"built", "wire"}
    /\ decoded = Unparsed
    /\ \/ \E k \in 1..Len(buf) : buf' = SubSeq(buf, 1, Len(buf) - k)
       \/ \E i \in 0..(Len(encPayload) - 1) :
             \E k \in 1..Min(MaxCut, Len(encPayload) - i) :
                buf' = Slice(buf, 0, 7 + i) \o Slice(buf, 7 + i + k, Len(buf))
    /\ bufKind' = "truncated"
    /\ UNCHANGED <<serverVars, encCommand, encDoor, encPayload, flipPos, decoded>>

\* frame = parse_frame(data)
Decode ==
    /\ bufKind \in {"built", "wire", "flipped", "truncated"}
    /\ decoded = Unparsed
    /\ decoded' = parse_frame(buf)
    /\ UNCHANGED <<serverVars, encCommand, encDoor, encPayload, buf, bufKind, flipPos>>

CodecNext == Encode \/ Receive \/ FlipBit \/ Truncate \/ Decode

CodecSpec == CodecInit /\ [][CodecNext]_vars

Parsed == decoded # Unparsed

(***************************************************************************)
(* C1. Round trip: parsing the frame built from (command, payload, door)   *)
(* succeeds and gives back the same command, door and payload bytes.       *)
(* build_command_frame writes 9 + N bytes and parse_frame demands 10 + N,  *)
(* so the code rejects every frame it builds.                              *)
(***************************************************************************)
RoundTrip ==
    (bufKind = "built" /\ Parsed) =>
        /\ decoded.ok
        /\ decoded.command = encCommand
        /\ decoded.door = encDoor
        /\ decoded.data = encPayload

FrameLayout ==
    bufKind = "built" =>
        LET n == Len(encPayload)
            covered == <<160, encCommand, 255, encDoor, n % 256, n \div 256>>
                           \o encPayload
        IN  /\ buf = <<2>> \o covered \o <<XorFromZero(covered), 3>>
            /\ (encCommand = 86 /\ encDoor = 0 /\ encPayload = <<>>) =>
                   buf = <<2, 160, 86, 255, 0, 0, 0, 9, 3>>

FrameLayoutWitness ==
    /\ bufKind = "built"
    /\ encCommand = 86 /\ encDoor = 0 /\ encPayload = <<>>
    /\ buf = <<2, 160, 86, 255, 0, 0, 0, 9, 3>>

(***************************************************************************)
(* C4 as stated: Open-Door for door 2 (command 0x2C, door 2, payload 02)   *)
(* encodes to 02 A0 2C FF 02 01 00 02 CE 03.                               *)
(***************************************************************************)
IsOpenDoor2 == encCommand = 44 /\ encDoor = 2 /\ encPayload = <<2>>

OpenDoorFrameCE ==
    (bufKind = "built" /\ IsOpenDoor2) =>
        buf = <<2, 160, 44, 255, 2, 1, 0, 2, 206, 3>>

(***************************************************************************)
(* C4 amended: that frame is 02 A0 2C FF 02 01 00 02 72 03; its checksum   *)
(* byte is 0x72 = A0 ^ 2C ^ FF ^ 02 ^ 01 ^ 00 ^ 02.                        *)
(***************************************************************************)
OpenDoorFrame72 ==
    (bufKind = "built" /\ IsOpenDoor2) =>
        buf = <<2, 160, 44, 255, 2, 1, 0, 2, 114, 3>>

OpenDoorFrameWitness ==
    /\ bufKind = "built" /\ IsOpenDoor2
    /\ buf[9] = 114

(***************************************************************************)
(* C5 as stated: a single flipped bit anywhere in Rand..Payload of an      *)
(* accepted frame makes parse_frame reject with a checksum mismatch.       *)
(***************************************************************************)
FlipIsChecksumMismatch ==
    (bufKind = "flipped" /\ Parsed) =>
        (~decoded.ok /\ decoded.err = "checksum")

(***************************************************************************)
(* C5 amended: such a flip always makes parse_frame reject; the rejection  *)
(* is a checksum mismatch when the byte is Rand, Command, Address, Door or *)
(* a payload byte, and a frame length mismatch when it is LengthL or       *)
(* LengthH.  No frame is ever decoded from the corrupted bytes.            *)
(***************************************************************************)
FlipIsRejected ==
    (bufKind = "flipped" /\ Parsed) =>
        /\ ~decoded.ok
        /\ decoded.err = IF flipPos \in {5, 6} THEN "length" ELSE "checksum"

\* the last bit of the last payload byte was flipped and the frame parsed
FlipWitness ==
    /\ bufKind = "flipped" /\ Parsed
    /\ Len(encPayload) > 0
    /\ flipPos = 6 + Len(encPayload)
    /\ buf[flipPos + 1] = BitXor(encPayload[Len(encPayload)], 1)
    /\ decoded.ok = FALSE
    /\ decoded.err = "checksum"

(***************************************************************************)
(* C6. Length enforcement: bytes whose header declares N payload bytes     *)
(* but which were cut short are rejected; a returned frame always has      *)
(* exactly the declared number of payload bytes.                           *)
(***************************************************************************)
LengthEnforced ==
    /\ (bufKind = "truncated" /\ Parsed) => ~decoded.ok
    /\ (Parsed /\ decoded.ok) =>
          /\ Len(buf) = 10 + Declared(buf)
          /\ Len(decoded.data) = Declared(buf)

\* payload bytes were lost, STX and ETX are in place, and the bytes were
\* rejected for their length
LengthEnforcedWitness ==
    /\ bufKind = "truncated" /\ Parsed
    /\ Len(buf) >= 10 /\ buf[1] = STX /\ buf[Len(buf)] = ETX
    /\ Len(buf) < 10 + Declared(buf)
    /\ decoded.err = "length"

(***************************************************************************)
(* The server.                                                             *)
(***************************************************************************)
\* try: if self.controller_conn: self.controller_conn.send(frame)
\* except Exception: logged.  The value is the new content of the wires:
\* nothing is written when the reference is None or when send raises
\* because the socket was closed or the peer has reset the connection.
send(w, frame) ==
    IF controller_conn # 0 /\ conn[controller_conn] = "open"
    THEN [w EXCEPT ![controller_conn] = Append(@, frame)]
    ELSE w

\* mutant: the heartbeat reply echoes the payload received
HeartbeatEcho(frame) ==
    send(wire, build_command_frame(86, frame.data, 0))

handle_heartbeat(frame) ==
    LET response_data == <<0, 0>>
        response_frame == build_command_frame(86, response_data, 0)
    IN  send(wire, response_frame)

\* mutant: the serial number is read one byte early (the more-records flag)
SwipeSerialAt12(frame) ==
    IF Len(frame.data) >= 15
    THEN send(wire, build_command_frame(83, <<At(frame.data, 12)>>, 0))
    ELSE wire

handle_swipe_record(frame) ==
    IF Len(frame.data) >= 15
    THEN LET serial_no == At(frame.data, 13)
             response_data == <<serial_no>>
             response_frame == build_command_frame(83, response_data, 0)
         IN  send(wire, response_frame)
    ELSE wire

\* mutant: the alarm record is acknowledged whatever its length, with its
\* last byte as the serial number
AlarmAckAnyLength(frame) ==
    IF Len(frame.data) >= 1
    THEN send(wire, build_command_frame(84, <<frame.data[Len(frame.data)]>>, 0))
    ELSE wire

handle_alarm_record(frame) ==
    IF Len(frame.data) >= 10
    THEN LET serial_no == At(frame.data, 9)
             response_data == <<serial_no>>
             response_frame == build_command_frame(84, response_data, 0)
         IN  send(wire, response_frame)
    ELSE wire

\* open_door(door): the frame carries no data, the door is in the header
open_door(door) ==
    LET open_door_frame == build_command_frame(44, <<>>, door)
    IN  send(wire, open_door_frame)

\* mutant: the newest command is taken first
GetNewestFirst(q) ==
    [cmd |-> q[Len(q)], rest |-> SubSeq(q, 1, Len(q) - 1)]

\* self.command_queue.get_nowait() on a queue that is not empty
get_nowait(q) == [cmd |-> Head(q), rest |-> Tail(q)]

\* self.command_queue.put(item)
put(q, item) == Append(q, item)

Ids(q) == [i \in DOMAIN q |-> q[i].id]

\* trigger_open_door(): the command is put on the queue and the function
\* ends without a return statement; put on an unbounded Queue never raises.
\* The result is the new queue and what the caller gets back.
trigger_open_door(q, id) ==
    [queue |-> put(q, [cmd |-> "open_door", id |-> id]), returns |-> "None"]

(***************************************************************************)
(* Bytes the controller side sends.                                        *)
(***************************************************************************)
\* a swipe record: card number (4), time (6), type, door, more-records
\* flag, serial number, then data type and card status
SwipePayload(serial) ==
    <<1, 2, 3, 4, 10, 11, 12, 13, 14, 15, 20, 21, 22, serial, 24, 25>>

\* time (6), type, door, more-records flag, serial number
AlarmPayload(serial) == <<10, 11, 12, 13, 14, 15, 20, 21, 22, serial>>

\* card index (2, little-endian), state, serial number, more flag
CardStatePayload == <<5, 0, 1, 7, 0>>

HeartbeatPayloads == {<<>>, <<1, 2, 3>>}

\* <<serial number, payload length>> of the swipe records received
SwipeShapes == {<<7, 14>>, <<9, 15>>}

\* <<serial number, payload length>> of the alarm records received
AlarmShapes == {<<8, 9>>, <<9, 10>>}

InboundFrames ==
    {WireFrame(160, 86, 255, 0, p, 0) : p \in HeartbeatPayloads}
    \cup {WireFrame(90, 83, 1, 1, SubSeq(SwipePayload(sh[1]), 1, sh[2]), 0) :
             sh \in SwipeShapes}
    \cup {WireFrame(160, 84, 255, 1, SubSeq(AlarmPayload(sh[1]), 1, sh[2]), 0) :
             sh \in AlarmShapes}
    \cup {WireFrame(160, 82, 255, 0, CardStatePayload, 0)}

\* two frames the peer sent back to back, returned by one recv
CoalescedRead ==
    WireFrame(160, 86, 255, 0, <<>>, 0)
        \o WireFrame(90, 83, 1, 1, SubSeq(SwipePayload(9), 1, 15), 0)

\* one heartbeat frame (13 bytes) returned by two recv calls
SplitFrame == WireFrame(160, 86, 255, 0, <<1, 2, 3>>, 0)
SplitHead == SubSeq(SplitFrame, 1, 11)
SplitTail == SubSeq(SplitFrame, 12, Len(SplitFrame))

\* bytes parse_frame rejects: a heartbeat as build_command_frame lays it
\* out (9 bytes), a frame with a wrong checksum byte, and reads that do not
\* hold exactly one frame
InboundGarbage ==
    {build_command_frame(86, <<>>, 0),
     [WireFrame(160, 86, 255, 0, <<1>>, 0) EXCEPT ![9] = 0],
     CoalescedRead, SplitHead, SplitTail}

InboundSamples == InboundFrames \cup InboundGarbage

(***************************************************************************)
(* Actions.                                                                *)
(***************************************************************************)
Init ==
    /\ encCommand = 0
    /\ encDoor = 0
    /\ encPayload = <<>>
    /\ buf = <<>>
    /\ bufKind = "none"
    /\ flipPos = 0
    /\ decoded = Unparsed
    /\ ServerIdle

\* the effect of stop_server on the sockets
StopEffect ==
    /\ running' = FALSE
    /\ conn' = IF controller_conn # 0
               THEN [conn EXCEPT ![controller_conn] = "closed"]
               ELSE conn
    /\ server_socket' = IF server_socket # "none" THEN "closed"
                        ELSE server_socket

\* start_server up to the accept loop: bind, listen, running = True
StartServer ==
    /\ serverPc = "init"
    /\ server_socket' = "listening"
    /\ running' = TRUE
    /\ serverPc' = "accept"
    /\ UNCHANGED <<codecVars, controller_conn, command_queue, conn, pc, recv_data,
                   wire, recvCount, enqueued, drained,
                   rejected>>

\* one round of the accept loop: a controller connects and its handler
\* thread is started
Accept ==
    /\ serverPc = "accept"
    /\ running
    /\ server_socket = "listening"
    /\ \E c \in Conns :
          /\ conn[c] = "unborn"
          /\ \A d \in Conns : d < c => conn[d] # "unborn"
          /\ conn' = [conn EXCEPT ![c] = "open"]
          /\ pc' = [pc EXCEPT ![c] = "start"]
    /\ UNCHANGED <<codecVars, server_socket, running, controller_conn,
                   command_queue, recv_data, wire, serverPc, recvCount, enqueued,
                   drained,
                   rejected>>

\* the accept loop ends (running is False, or accept raised OSError on the
\* closed socket) and the finally clause calls stop_server
AcceptExit ==
    /\ serverPc = "accept"
    /\ ~running \/ server_socket = "closed"
    /\ StopEffect
    /\ serverPc' = "stopped"
    /\ UNCHANGED <<codecVars, controller_conn, command_queue, pc, recv_data, wire,
                   recvCount, enqueued, drained,
                   rejected>>

\* stop_server called from outside the accept loop (main's finally)
StopServer ==
    /\ serverPc # "init"
    /\ running \/ server_socket = "listening"
    /\ StopEffect
    /\ UNCHANGED <<codecVars, controller_conn, command_queue, pc, recv_data, wire,
                   serverPc, recvCount, enqueued, drained,
                   rejected>>

\* trigger_open_door, from any thread
TriggerOpenDoor ==
    /\ enqueued < MaxEnqueue
    /\ enqueued' = enqueued + 1
    /\ command_queue' = trigger_open_door(command_queue, enqueued + 1).queue
    /\ UNCHANGED <<codecVars, server_socket, running, controller_conn, conn,
                   pc, recv_data, wire, serverPc, recvCount, drained,
                   rejected>>

\* "while self.running", evaluated by a thread that arrives at the top of
\* the loop: into the blocking recv, or out to the finally clause
LoopTest == IF running THEN "recv" ELSE "close"

\* The end of an iteration on a connection the peer has reset: whatever
\* the loop test says, the thread reaches the finally clause (the test
\* fails, or the next recv raises), which starts with conn.close()
IterationEndPc(c) == IF conn[c] = "reset" THEN "clear" ELSE LoopTest

IterationEndConn(c) ==
    IF conn[c] = "reset" THEN [conn EXCEPT ![c] = "closed"] ELSE conn

\* handle_controller_connection, first lines: self.controller_conn = conn;
\* then the first loop test
HandlerStart(c) ==
    /\ pc[c] = "start"
    /\ controller_conn' = c
    /\ pc' = [pc EXCEPT ![c] = LoopTest]
    /\ UNCHANGED <<codecVars, server_socket, running, command_queue, conn,
                   recv_data, wire, serverPc, recvCount, enqueued, drained,
                   rejected>>

\* data = conn.recv(1024) returns bytes
RecvData(c) ==
    /\ pc[c] = "recv"
    /\ conn[c] = "open"
    /\ recvCount < MaxRecv
    /\ \E d \in InboundSamples : recv_data' = [recv_data EXCEPT ![c] = d]
    /\ recvCount' = recvCount + 1
    /\ pc' = [pc EXCEPT ![c] = "dispatch"]
    /\ UNCHANGED <<codecVars, server_socket, running, controller_conn,
                   command_queue, conn, wire, serverPc, enqueued, drained,
                   rejected>>

\* recv returns b'' (the peer closed) or raises (the connection was reset,
\* or the socket closed): the loop is left and the finally clause starts
\* with conn.close()
RecvEnd(c) ==
    /\ pc[c] = "recv"
    /\ conn' = [conn EXCEPT ![c] = "closed"]
    /\ pc' = [pc EXCEPT ![c] = "clear"]
    /\ UNCHANGED <<codecVars, server_socket, running, controller_conn,
                   command_queue, recv_data, wire, serverPc, recvCount,
                   enqueued, drained,
                   rejected>>

\* the peer resets the connection while the thread is between two recv
\* calls: the sends of this iteration raise, and so does the next recv
PeerReset(c) ==
    /\ pc[c] \in {"dispatch", "drain"}
    /\ conn[c] = "open"
    /\ conn' = [conn EXCEPT ![c] = "reset"]
    /\ UNCHANGED <<codecVars, server_socket, running, controller_conn,
                   command_queue, pc, recv_data, wire, serverPc, recvCount,
                   enqueued, drained,
                   rejected>>

\* mutant: the queue is served before the handler of the frame runs; one
\* queued command and the reply are written in this order
DispatchQueueFirst(c) ==
    /\ pc[c] = "dispatch"
    /\ LET frame == parse_frame(recv_data[c])
           got == get_nowait(command_queue)
       IN  /\ frame.ok
           /\ command_queue # <<>>
           /\ command_queue' = got.rest
           /\ drained' = Append(drained, got.cmd.id)
           /\ wire' = send(open_door(1), build_command_frame(86, <<0, 0>>, 0))
           /\ pc' = [pc EXCEPT ![c] = "drain"]
    /\ UNCHANGED <<codecVars, server_socket, running, controller_conn, conn,
                   recv_data, serverPc, recvCount, enqueued, rejected>>

\* frame = self.parse_frame(data); "continue" when it is None, else the
\* handler of the command runs and sends its reply.  data is kept while
\* the iteration lasts.
Dispatch(c) ==
    /\ pc[c] = "dispatch"
    /\ \E frame \in {parse_frame(recv_data[c])} :
           IF ~frame.ok
           THEN /\ pc' = [pc EXCEPT ![c] = IterationEndPc(c)]
                /\ conn' = IterationEndConn(c)
                /\ recv_data' = [recv_data EXCEPT ![c] = <<>>]
                /\ rejected' = rejected + 1
                /\ UNCHANGED wire
           ELSE /\ wire' = CASE frame.command = 86 -> handle_heartbeat(frame)
                             [] frame.command = 83 -> handle_swipe_record(frame)
                             [] frame.command = 84 -> handle_alarm_record(frame)
                             [] OTHER -> wire
                /\ pc' = [pc EXCEPT ![c] = "drain"]
                /\ UNCHANGED <<recv_data, conn, rejected>>
    /\ UNCHANGED <<codecVars, server_socket, running, controller_conn,
                   command_queue, serverPc, recvCount, enqueued, drained>>

\* one round of "while not self.command_queue.empty()": get_nowait, then
\* open_door() for an 'open_door' command
DrainOne(c) ==
    /\ pc[c] = "drain"
    /\ command_queue # <<>>
    /\ LET got == get_nowait(command_queue)
       IN  /\ command_queue' = got.rest
           /\ drained' = Append(drained, got.cmd.id)
           /\ wire' = IF got.cmd.cmd = "open_door" THEN open_door(1) ELSE wire
    /\ UNCHANGED <<codecVars, server_socket, running, controller_conn, conn,
                   pc, recv_data, serverPc, recvCount, enqueued,
                   rejected>>

\* the queue is empty: the drain loop ends, back to "while self.running"
DrainDone(c) ==
    /\ pc[c] = "drain"
    /\ command_queue = <<>>
    /\ pc' = [pc EXCEPT ![c] = IterationEndPc(c)]
    /\ conn' = IterationEndConn(c)
    /\ recv_data' = [recv_data EXCEPT ![c] = <<>>]
    /\ UNCHANGED <<codecVars, server_socket, running, controller_conn,
                   command_queue, wire, serverPc, recvCount, enqueued,
                   drained,
                   rejected>>

\* the loop test failed; finally: conn.close()
HandlerClose(c) ==
    /\ pc[c] = "close"
    /\ conn' = [conn EXCEPT ![c] = "closed"]
    /\ pc' = [pc EXCEPT ![c] = "clear"]
    /\ UNCHANGED <<codecVars, server_socket, running, controller_conn,
                   command_queue, recv_data, wire, serverPc, recvCount, enqueued,
                   drained,
                   rejected>>

\* finally: self.controller_conn = None
HandlerClear(c) ==
    /\ pc[c] = "clear"
    /\ controller_conn' = 0
    /\ pc' = [pc EXCEPT ![c] = "done"]
    /\ UNCHANGED <<codecVars, server_socket, running, command_queue, conn,
                   recv_data, wire, serverPc, recvCount, enqueued, drained,
                   rejected>>

Handler(c) ==
    \/ HandlerStart(c) \/ RecvData(c) \/ RecvEnd(c) \/ PeerReset(c)
    \/ Dispatch(c) \/ DrainOne(c) \/ DrainDone(c)
    \/ HandlerClose(c) \/ HandlerClear(c)

Next ==
    \/ StartServer \/ Accept \/ AcceptExit \/ StopServer \/ TriggerOpenDoor
    \/ \E c \in Conns : Handler(c)

Spec == Init /\ [][Next]_vars

(***************************************************************************)
(* Fair scheduling of the threads.  A thread that can take a step of its   *)
(* own eventually takes it: the handler threads outside recv, a recv on a  *)
(* socket that close() was called on (it raises), and the accept loop once *)
(* running is False or the listening socket is closed.  What the peer does *)
(* (sending bytes, closing, resetting) and the calls from outside          *)
(* (trigger_open_door, stop_server) are under no obligation.               *)
(***************************************************************************)
\* recv raises because the socket was closed by stop_server
RecvClosed(c) == conn[c] = "closed" /\ RecvEnd(c)

ThreadStep(c) ==
    \/ HandlerStart(c) \/ RecvClosed(c) \/ Dispatch(c) \/ DrainOne(c)
    \/ DrainDone(c) \/ HandlerClose(c) \/ HandlerClear(c)

Fairness ==
    /\ WF_vars(AcceptExit)
    /\ \A c \in Conns : WF_vars(ThreadStep(c))

FairSpec == Init /\ [][Next]_vars /\ Fairness

(***************************************************************************)
(* The server with one session already Streaming: the state of Spec after  *)
(* start_server, one accept and the first lines of the handler thread,     *)
(* with trigger_open_door called only while that session is blocked in     *)
(* recv on its open connection.  Every behaviour is a behaviour of the     *)
(* program; every command in the queue was put while session 1 was         *)
(* Streaming and before the read that follows.                             *)
(***************************************************************************)
FlushInit ==
    /\ encCommand = 0
    /\ encDoor = 0
    /\ encPayload = <<>>
    /\ buf = <<>>
    /\ bufKind = "none"
    /\ flipPos = 0
    /\ decoded = Unparsed
    /\ server_socket = "listening"
    /\ running = TRUE
    /\ controller_conn = 1
    /\ command_queue = <<>>
    /\ conn = [c \in Conns |-> IF c = 1 THEN "open" ELSE "unborn"]
    /\ pc = [c \in Conns |-> IF c = 1 THEN "recv" ELSE "unborn"]
    /\ recv_data = [c \in Conns |-> <<>>]
    /\ wire = [c \in Conns |-> <<>>]
    /\ serverPc = "accept"
    /\ recvCount = 0
    /\ enqueued = 0
    /\ drained = <<>>
    /\ rejected = 0

SubmitWhileWaiting ==
    /\ pc[1] = "recv"
    /\ conn[1] = "open"
    /\ TriggerOpenDoor

FlushNext ==
    \/ Accept \/ AcceptExit \/ StopServer \/ SubmitWhileWaiting
    \/ \E c \in Conns : Handler(c)

FlushSpec == FlushInit /\ [][FlushNext]_vars

(***************************************************************************)
(* Vocabulary of the server claims.                                        *)
(***************************************************************************)
\* handler thread c takes its dispatch step
DispatchStep(c) == pc[c] = "dispatch" /\ pc'[c] # "dispatch"

\* the frame that step parses
Inbound(c) == parse_frame(recv_data[c])

\* c is the server's active session: the reference holds its open connection
Active(c) == controller_conn = c /\ conn[c] = "open"

\* the acknowledgement of a heartbeat: command 0x56, payload 00 00
HeartbeatAck == <<2, 160, 86, 255, 0, 2, 0, 0, 0, 11, 3>>

\* the acknowledgement of a swipe record: command 0x53, payload the serial
SwipeAck(serial) ==
    <<2, 160, 83, 255, 0, 1, 0, serial,
      XorFromZero(<<160, 83, 255, 0, 1, 0, serial>>), 3>>

\* the payload of a 9 + N byte frame written by the server
PayloadOf(frame) == SubSeq(frame, 8, Len(frame) - 2)

(***************************************************************************)
(* C7. Heartbeat idempotence: a valid 0x56 frame dispatched on the active  *)
(* session writes exactly one frame, the acknowledgement with command 0x56 *)
(* and payload (0x00, 0x00), to that session's connection, whatever the    *)
(* inbound payload and whatever was dispatched before.                     *)
(***************************************************************************)
HeartbeatIdempotent ==
    [][\A c \in Conns :
          (DispatchStep(c) /\ Inbound(c).ok /\ Inbound(c).command = 86
              /\ Active(c))
          => wire' = [wire EXCEPT ![c] = Append(@, HeartbeatAck)]]_vars

\* a second heartbeat, with a payload of its own, has just been
\* acknowledged like the first
HeartbeatWitness ==
    \E c \in Conns :
        /\ pc[c] = "drain"
        /\ Inbound(c).ok /\ Inbound(c).command = 86
        /\ Inbound(c).data = <<1, 2, 3>>
        /\ wire[c] = <<HeartbeatAck, HeartbeatAck>>

(***************************************************************************)
(* C8 as stated: a valid 0x53 frame whose payload carries the swipe record *)
(* fields up to the serial number (14 bytes) is acknowledged on the active *)
(* session with command 0x53 and the serial number as the only payload     *)
(* byte.                                                                   *)
(***************************************************************************)
SwipeAckFrom14 ==
    [][\A c \in Conns :
          (DispatchStep(c) /\ Inbound(c).ok /\ Inbound(c).command = 83
              /\ Len(Inbound(c).data) >= 14 /\ Active(c))
          => wire' = [wire EXCEPT
                         ![c] = Append(@, SwipeAck(At(Inbound(c).data, 13)))]]_vars

(***************************************************************************)
(* C8 amended: the acknowledgement is written for a valid 0x53 frame whose *)
(* payload has at least 15 bytes (the fields up to the serial number and   *)
(* the data type byte).  The only frame the handler then writes is the     *)
(* acknowledgement with command 0x53 and the serial number (payload byte   *)
(* 13) as its only payload byte; on the active session exactly that frame  *)
(* is written to the session's connection.  A shorter payload writes       *)
(* nothing.                                                                *)
(***************************************************************************)
SwipeAckFidelity ==
    [][\A c \in Conns :
          (DispatchStep(c) /\ Inbound(c).ok /\ Inbound(c).command = 83)
          => IF Len(Inbound(c).data) >= 15
             THEN LET ack == SwipeAck(At(Inbound(c).data, 13))
                  IN  IF Active(c)
                      THEN wire' = [wire EXCEPT ![c] = Append(@, ack)]
                      ELSE \E d \in Conns :
                              wire' \in {wire, [wire EXCEPT ![d] = Append(@, ack)]}
             ELSE wire' = wire]_vars

\* a 15-byte swipe record with serial number 9 has just been acknowledged
SwipeAckWitness ==
    \E c \in Conns :
        /\ pc[c] = "drain"
        /\ Inbound(c).ok /\ Inbound(c).command = 83
        /\ Len(Inbound(c).data) = 15
        /\ At(Inbound(c).data, 13) = 9
        /\ wire[c] # <<>>
        /\ PayloadOf(wire[c][Len(wire[c])]) = <<9>>

(***************************************************************************)
(* C9. Card state record: a valid 0x52 frame with a payload of at least 5  *)
(* bytes is answered on the active session with one frame whose payload is *)
(* the serial number byte (payload byte 3); 05 00 01 07 00 gives 07.       *)
(* The dispatch has no branch for 0x52 and writes nothing.                 *)
(***************************************************************************)
CardStateReply ==
    [][\A c \in Conns :
          (DispatchStep(c) /\ Inbound(c).ok /\ Inbound(c).command = 82
              /\ Len(Inbound(c).data) >= 5 /\ Active(c))
          => /\ Len(wire'[c]) = Len(wire[c]) + 1
             /\ PayloadOf(wire'[c][Len(wire'[c])])
                    = <<At(Inbound(c).data, 3)>>]_vars

(***************************************************************************)
(* C10. Queue ordering: the commands put by trigger_open_door leave the    *)
(* queue in the order they were put, none lost and none taken twice; and   *)
(* when a drain loop ends, every command put so far has been taken:        *)
(* putting A, B, C and draining takes exactly A, B, C.                     *)
(***************************************************************************)
Numbered(n) == [i \in 1..n |-> i]

QueueOrdering ==
    [][/\ drained' \o Ids(command_queue') = Numbered(enqueued')
       /\ \A c \in Conns :
             (pc[c] = "drain" /\ pc'[c] # "drain")
             => drained' = Numbered(enqueued')]_vars

\* three commands were put, and the one drain loop that has run took them
\* in that order
QueueOrderingWitness ==
    \E c \in Conns :
        /\ recvCount = 1
        /\ pc[c] = "recv"
        /\ enqueued = 3
        /\ drained = <<1, 2, 3>>
        /\ command_queue = <<>>
        /\ Len(wire[c]) >= 3

(***************************************************************************)
(* Vocabulary of the error-handling claims.                                *)
(***************************************************************************)
\* the bytes fail frame validation, in the words of the frame format: fewer
\* than 10 bytes, wrong STX or ETX, declared length + 10 different from the
\* byte count, or a checksum byte that is not the XOR of Rand..payload
FailsValidation(data) ==
    \/ Len(data) < 10
    \/ data[1] # 2
    \/ data[Len(data)] # 3
    \/ Len(data) # Declared(data) + 10
    \/ At(data, 7 + Declared(data))
           # XorFromZero(Slice(data, 1, 7 + Declared(data)))

\* the Open-Door frame the drain loop writes: command 0x2C, door 1, no data
OpenDoorFrame == <<2, 160, 44, 255, 1, 0, 0, 114, 3>>

\* the acknowledgement of an alarm record: command 0x54, payload the serial
AlarmAck(serial) ==
    <<2, 160, 84, 255, 0, 1, 0, serial,
      XorFromZero(<<160, 84, 255, 0, 1, 0, serial>>), 3>>

(***************************************************************************)
(* C11. Invalid frames are not dispatched: when the bytes of a read fail   *)
(* frame validation, the iteration runs no handler, writes nothing to any  *)
(* connection and takes nothing from the queue; unless the server is being *)
(* stopped, the session stays open and returns to recv for later frames.   *)
(***************************************************************************)
InvalidNotDispatched ==
    [][\A c \in Conns :
          (DispatchStep(c) /\ FailsValidation(recv_data[c]))
          => /\ wire' = wire
             /\ command_queue' = command_queue
             /\ drained' = drained
             /\ pc'[c] # "drain"
             /\ controller_conn' = controller_conn
             /\ (running /\ conn[c] = "open")
                    => (pc'[c] = "recv" /\ conn'[c] = "open")]_vars

\* the first read of a session failed validation and wrote nothing; the
\* second, a heartbeat, has just been acknowledged
InvalidNotDispatchedWitness ==
    \E c \in Conns :
        /\ rejected = 1
        /\ recvCount = 2
        /\ \A d \in Conns \ {c} : conn[d] = "unborn"
        /\ pc[c] = "drain"
        /\ Inbound(c).ok /\ Inbound(c).command = 86
        /\ wire[c] = <<HeartbeatAck>>

(***************************************************************************)
(* C12. A valid swipe record (0x53) with fewer than 15 payload bytes, or a *)
(* valid alarm record (0x54) with fewer than 10, is dropped: its handler   *)
(* writes no frame to any connection, the connection is left as it was and *)
(* the iteration goes on to the queue and the next read.                   *)
(***************************************************************************)
ShortRecordDropped ==
    [][\A c \in Conns :
          (DispatchStep(c) /\ Inbound(c).ok
              /\ \/ Inbound(c).command = 83 /\ Len(Inbound(c).data) < 15
                 \/ Inbound(c).command = 84 /\ Len(Inbound(c).data) < 10)
          => /\ wire' = wire
             /\ conn' = conn
             /\ controller_conn' = controller_conn
             /\ pc'[c] = "drain"]_vars

\* an alarm record of 9 bytes has just been dropped on an active session:
\* nothing was written and the thread is at the queue
ShortRecordWitness ==
    \E c \in Conns :
        /\ recvCount = 1
        /\ rejected = 0
        /\ pc[c] = "drain"
        /\ Active(c)
        /\ Inbound(c).ok /\ Inbound(c).command = 84
        /\ Len(Inbound(c).data) = 9
        /\ wire = [d \in Conns |-> <<>>]

(***************************************************************************)
(* C13. Wire ordering within a session: a read is dispatched only after    *)
(* the iteration of the previous read has ended; the step that handles     *)
(* frame N takes nothing from the queue and, on the active session, its    *)
(* acknowledgement is the next frame on the connection; queued commands    *)
(* are taken only by a thread that is past that step, one Open-Door frame  *)
(* at most being written per command taken.                                *)
(***************************************************************************)
AckBeforeCommands ==
    [][/\ \A c \in Conns :
             /\ (pc[c] # "dispatch" /\ pc'[c] = "dispatch")
                    => (pc[c] = "recv" /\ recv_data[c] = <<>>)
             /\ DispatchStep(c)
                    => (command_queue' = command_queue /\ drained' = drained)
             /\ (DispatchStep(c) /\ Active(c) /\ Inbound(c).ok
                     /\ \/ Inbound(c).command = 83 /\ Len(Inbound(c).data) >= 15
                        \/ Inbound(c).command = 84 /\ Len(Inbound(c).data) >= 10)
                    => wire' = [wire EXCEPT ![c] = Append(@,
                          IF Inbound(c).command = 83
                          THEN SwipeAck(At(Inbound(c).data, 13))
                          ELSE AlarmAck(At(Inbound(c).data, 9)))]
       /\ drained' # drained
             => /\ \E c \in Conns : pc[c] = "drain" /\ pc'[c] = "drain"
                /\ \/ wire' = wire
                   \/ \E d \in Conns :
                         wire' = [wire EXCEPT ![d] = Append(@, OpenDoorFrame)]
      ]_vars

\* in one iteration of an active session the acknowledgement of a swipe
\* record was written first, then the two commands queued before the read
AckBeforeCommandsWitness ==
    \E c \in Conns :
        /\ recvCount = 1
        /\ pc[c] = "drain"
        /\ Inbound(c).ok /\ Inbound(c).command = 83
        /\ drained = <<1, 2>>
        /\ wire[c] = <<SwipeAck(9), OpenDoorFrame, OpenDoorFrame>>

\* the handler of the frame about to be dispatched by c calls send
AckAttempt(c) ==
    /\ pc[c] = "dispatch"
    /\ Inbound(c).ok
    /\ \/ Inbound(c).command = 86
       \/ Inbound(c).command = 83 /\ Len(Inbound(c).data) >= 15
       \/ Inbound(c).command = 84 /\ Len(Inbound(c).data) >= 10

\* c is the only thread in the queue loop and takes a command
CommandAttempt(c) ==
    /\ pc[c] = "drain"
    /\ \A d \in Conns \ {c} : pc[d] # "drain"
    /\ drained' # drained

\* a send on c's own connection raises: the reference holds c and the
\* peer has reset the connection
OwnWriteFails(c) == controller_conn = c /\ conn[c] = "reset"

(***************************************************************************)
(* C14. Transport failures are fatal to the session.  A read that returns  *)
(* zero bytes or raises takes the thread out of the loop with its          *)
(* connection closed; so must a write that fails on the session's own      *)
(* connection, while sending an acknowledgement or a queued command.  The  *)
(* handlers catch the exception of send and return: the thread goes on to  *)
(* the queue and to the next recv.                                         *)
(***************************************************************************)
TransportFailureFatal ==
    [][\A c \in Conns :
          /\ (pc[c] = "recv" /\ pc'[c] \notin {"recv", "dispatch"})
                 => (pc'[c] = "clear" /\ conn'[c] = "closed")
          /\ (pc[c] = "clear" /\ pc'[c] # "clear")
                 => (pc'[c] = "done" /\ controller_conn' = 0)
          /\ (OwnWriteFails(c)
                 /\ \/ AckAttempt(c) /\ DispatchStep(c)
                    \/ CommandAttempt(c))
                 => pc'[c] \in {"close", "clear"}]_vars

(***************************************************************************)
(* Vocabulary of the session claims.                                       *)
(***************************************************************************)
\* the session of connection c is Streaming: its thread is in the receive
\* loop and its connection is open
Streaming(c) == pc[c] \in {"recv", "dispatch", "drain"} /\ conn[c] = "open"

\* trigger_open_door is called in this step
Submit == enqueued' = enqueued + 1

(***************************************************************************)
(* C15. A command submitted through trigger_open_door while no session is  *)
(* Streaming (none was accepted yet, or every session has closed) is       *)
(* reported to the caller as a failure: the call returns False or raises.  *)
(* trigger_open_door puts the command on the queue and returns None in     *)
(* every state.                                                            *)
(***************************************************************************)
SubmitWithoutSessionFails ==
    [][(Submit /\ \A c \in Conns : ~Streaming(c))
          => trigger_open_door(command_queue, enqueued + 1).returns
                \in {"False", "raises"}]_vars

(***************************************************************************)
(* C16. The active-session reference under interleaved accepts and closes: *)
(* controller_conn is empty only when no session is Streaming, and a       *)
(* closing session never clears the reference while it holds a different,  *)
(* still Streaming session.  (The window inside one thread's finally       *)
(* clause, between conn.close() and the clearing, is not counted.)         *)
(* Every handler thread writes the one shared reference on entry and sets  *)
(* it to None on exit, whoever it refers to.                               *)
(***************************************************************************)
SessionReferenceSound ==
    [][/\ controller_conn' = 0
             => \A c \in Conns :
                   ~(pc'[c] \in {"recv", "dispatch", "drain"}
                        /\ conn'[c] = "open")
       /\ \A c \in Conns :
             (pc[c] = "clear" /\ pc'[c] = "done"
                 /\ controller_conn \notin {0, c}
                 /\ Streaming(controller_conn))
             => controller_conn' = controller_conn]_vars

\* the number of Open-Door frames among the frames written
RECURSIVE OpenDoorCount(_)
OpenDoorCount(frames) ==
    IF frames = <<>> THEN 0
    ELSE (IF Head(frames) = OpenDoorFrame THEN 1 ELSE 0)
             + OpenDoorCount(Tail(frames))

(***************************************************************************)
(* C17. Bounded response for queued commands, for session 1 of FlushSpec:  *)
(* every command was put while the session was Streaming and waiting for   *)
(* its next readable event, so when an iteration of the session ends and   *)
(* the session is still Streaming, the queue holds no command and every    *)
(* command put so far is an Open-Door frame on connection 1.               *)
(* The "continue" after a failed parse_frame skips the queue loop: a read  *)
(* that does not validate (the 9-byte heartbeat of the frame layout        *)
(* included) ends its iteration with the commands still queued.            *)
(***************************************************************************)
QueuedCommandFlushed ==
    [][(pc[1] \in {"dispatch", "drain"} /\ pc'[1] = "recv"
           /\ conn'[1] = "open")
          => /\ command_queue' = <<>>
             /\ OpenDoorCount(wire'[1]) = enqueued']_vars

\* stop_server has been called on a started server
StopCalled == serverPc # "init" /\ ~running

AllLoopsEnded ==
    /\ serverPc = "stopped"
    /\ \A c \in Conns :
          \/ pc[c] = "unborn"
          \/ pc[c] = "done" /\ conn[c] = "closed"

(***************************************************************************)
(* C18. After stop_server was called, under fair scheduling of the         *)
(* threads, eventually the accept loop has ended and every handler thread  *)
(* the server started has left its loop with its connection closed.        *)
(* stop_server closes the listening socket and the one connection that     *)
(* controller_conn refers to: a session it does not refer to stays blocked *)
(* in recv on its open socket for as long as the peer is silent.           *)
(***************************************************************************)
StopEndsEveryLoop == StopCalled ~> AllLoopsEnded

(***************************************************************************)
(* C19. Frames are decoded however the transport cuts the byte stream.     *)
(* When one read of the active session returns two complete valid frames   *)
(* (a heartbeat, then a 15-byte swipe record with serial number 9), the    *)
(* step that processes the read dispatches them in order, so it writes at  *)
(* least one frame to the connection and the first frame it writes is the  *)
(* acknowledgement of the heartbeat.                                       *)
(* The loop hands the bytes of each recv to parse_frame as one frame and   *)
(* keeps no buffer: the coalesced bytes fail the length rule and are       *)
(* dropped whole, as is each part of a frame that arrives in two reads.    *)
(***************************************************************************)
CoalescedFramesDispatched ==
    [][\A c \in Conns :
          (DispatchStep(c) /\ recv_data[c] = CoalescedRead /\ Active(c))
          => /\ Len(wire'[c]) > Len(wire[c])
             /\ wire'[c][Len(wire[c]) + 1] = HeartbeatAck]_vars

(***************************************************************************)
(* C20. An acknowledgement goes to the connection its frame came from: the *)
(* step in which the thread of connection c dispatches a frame writes to   *)
(* no connection other than c.  The handlers send through the shared      *)
(* controller_conn, which holds the connection of whichever handler thread *)
(* started last.                                                           *)
(***************************************************************************)
AckOnSameConnection ==
    [][\A c \in Conns :
          DispatchStep(c)
          => \A d \in Conns \ {c} : wire'[d] = wire[d]]_vars
=============================================================================
